---- MODULE Spec2Model ----
(***************************************************************************)
(* Environment::popen and ProcessManager::runWithTimeoutAndCapture of      *)
(* src/types/environment.cc, as a state machine of one invocation: the     *)
(* caller thread, the worker task started by std::async, the child process *)
(* with its two pipes, and a possible descendant of the child that keeps   *)
(* the inherited pipe ends open.                                           *)
(*                                                                         *)
(* Text values (std::string, the bytes of a stream) are sequences of       *)
(* tokens: a token is one character of an input text or one string literal *)
(* of the source, and C++ string concatenation is \o.                      *)
(*                                                                         *)
(* The calls into <cpp-subprocess/subprocess.hpp> and <future> are         *)
(* modelled by their contracts at the places the source calls them:        *)
(*   Popen(...)        forks the child with stdout and stderr on pipes,    *)
(*                     or throws;                                          *)
(*   Popen::wait()     waitpid on the child; returns the status, which the *)
(*                     lambda of line 48 discards; it does not store it;   *)
(*   Popen::kill()     sends signal 9 to the child's pid, result ignored;  *)
(*   Popen::retcode()  the getter of retcode_, which starts as -1 and is   *)
(*                     assigned by poll() and communicate() only;          *)
(*   util::read_all    reads the stream to end of file (every write end    *)
(*                     closed) and leaves exactly the bytes read in buf;   *)
(*   ~future (async)   blocks until the task has finished.                 *)
(***************************************************************************)
EXTENDS Integers, Sequences, FiniteSets, TLC

VARIABLES command, timeout, prog, pc, result, ret, proc, child, outPipe,
          errPipe, descendant, worker, buffer, acc, fault, ops, spawnCount,
          sawTimeout, killedReaped

vars == <<command, timeout, prog, pc, result, ret, proc, child, outPipe,
          errPipe, descendant, worker, buffer, acc, fault, ops, spawnCount,
          sawTimeout, killedReaped>>

-----------------------------------------------------------------------------
(* Bounds of the model *)

\* longest command text
MaxCmd == 1
\* longest text a child program writes to one stream
MaxText == 2
\* bytes a pipe holds before the writer blocks
PipeCap == 1
\* length of the zero-filled vector of line 61, scaled down from 1024 * 1024
BUFFER_SIZE == 2

(* Program constants *)

\* exitCode of a timed-out or faulted outcome; also the initial retcode_
INVALID_EXIT == -1
\* the default signal of Popen::kill()
SIGKILL == 9

-----------------------------------------------------------------------------
(* Text helpers *)

None == <<"<none>">>

CmdChars == <<"x", "y", "z">>
OutChars == <<"o", "p", "q", "r">>
ErrChars == <<"e", "f", "g", "h">>

Commands == {SubSeq(CmdChars, 1, n) : n \in 0..MaxCmd}
OutTexts == {SubSeq(OutChars, 1, n) : n \in 0..MaxText}
ErrTexts == {SubSeq(ErrChars, 1, n) : n \in 0..MaxText}
Timeouts == {-1, 0, 1, 12}
ExitStatuses == {0, 3}

Digit(d) == <<"0", "1", "2", "3", "4", "5", "6", "7", "8", "9">>[d + 1]

RECURSIVE NatToString(_)
NatToString(n) ==
    IF n < 10 THEN <<Digit(n)>>
    ELSE NatToString(n \div 10) \o <<Digit(n % 10)>>

\* std::to_string(int)
to_string(i) == IF i < 0 THEN <<"-">> \o NatToString(-i) ELSE NatToString(i)

Contains(s, sub) ==
    \E i \in 0..(Len(s) - Len(sub)) : SubSeq(s, i + 1, i + Len(sub)) = sub

IsPrefix(s, t) == Len(s) <= Len(t) /\ SubSeq(t, 1, Len(s)) = s

Zeros(n) == [i \in 1..n |-> "NUL"]

-----------------------------------------------------------------------------
(* Values *)

\* ProcessResult result; (line 26, defaults of lines 18-21)
ProcessResult ==
    [exitCode |-> 0, output |-> <<>>, error |-> <<>>, timedOut |-> FALSE]

NoProc == [refs |-> 0, retcode_ |-> INVALID_EXIT]

NoChild == [state |-> "none", status |-> 0, how |-> "none",
            wrOut |-> 0, wrErr |-> 0, sig |-> FALSE]

Programs ==
    [out : OutTexts, err : ErrTexts, status : ExitStatuses,
     forever : BOOLEAN, leak : BOOLEAN]

\* subprocess::util::read_all(fp, buf): buf afterwards holds the bytes read
read_all(buf, bytes) == bytes

\* Popen::retcode()
retcode(p) == p.retcode_

\* end of file on a pipe: no process holds a write end any more
EndOfFile == child.state # "running" /\ ~descendant

SeqInTime == <<"readOut", "readErr", "retcode">>
SeqTimeout == <<"kill", "readOut">>

-----------------------------------------------------------------------------
(* Environment::popen, lines 88-99: the pair made from the outcome *)

\* PopenResult, but the failure branch passes the captured output along
PopenResult_KeepOutput(cmd, t, r) ==
    IF r.timedOut
    THEN [output |-> <<>>,
          error |-> <<"popen timed-out with command = [">> \o cmd
                    \o <<"] in ">> \o to_string(t) \o <<"ms">>]
    ELSE IF r.error # <<>>
    THEN [output |-> r.output,
          error |-> <<"popen failed with command = [">> \o cmd
                    \o <<"]: exitCode = ">> \o to_string(r.exitCode)
                    \o <<", err = ">> \o r.error]
    ELSE [output |-> r.output, error |-> <<>>]

PopenResult(cmd, t, r) ==
    IF r.timedOut
    THEN [output |-> <<>>,
          error |-> <<"popen timed-out with command = [">> \o cmd
                    \o <<"] in ">> \o to_string(t) \o <<"ms">>]
    ELSE IF r.error # <<>>
    THEN [output |-> <<>>,
          error |-> <<"popen failed with command = [">> \o cmd
                    \o <<"]: exitCode = ">> \o to_string(r.exitCode)
                    \o <<", err = ">> \o r.error]
    ELSE [output |-> r.output, error |-> <<>>]

-----------------------------------------------------------------------------
Init ==
    /\ command \in Commands
    /\ timeout \in Timeouts
    /\ prog \in Programs
    /\ pc = "popen"
    /\ result = ProcessResult
    /\ ret = [output |-> <<>>, error |-> <<>>]
    /\ proc = NoProc
    /\ child = NoChild
    /\ outPipe = <<>>
    /\ errPipe = <<>>
    /\ descendant = FALSE
    /\ worker = "none"
    /\ buffer = <<>>
    /\ acc = <<>>
    /\ fault = None
    /\ ops = <<>>
    /\ spawnCount = 0
    /\ sawTimeout = FALSE
    /\ killedReaped = FALSE

-----------------------------------------------------------------------------
(* The caller thread *)

\* PopenEntry without the test of command.empty()
PopenEntry_NoCheck ==
    /\ pc = "popen"
    /\ pc' = "spawn"
    /\ UNCHANGED <<command, timeout, prog, result, ret, proc, child, outPipe,
                   errPipe, descendant, worker, buffer, acc, fault, ops,
                   spawnCount, sawTimeout, killedReaped>>

\* lines 81-87: the empty-command check, then the call of the runner
PopenEntry ==
    /\ pc = "popen"
    /\ IF command = <<>>
       THEN /\ ret' = [output |-> <<>>, error |-> <<"Command is empty">>]
            /\ pc' = "done"
       ELSE /\ ret' = ret
            /\ pc' = "spawn"
    /\ UNCHANGED <<command, timeout, prog, result, proc, child, outPipe,
                   errPipe, descendant, worker, buffer, acc, fault, ops,
                   spawnCount, sawTimeout, killedReaped>>

\* Spawn, but the test is timeoutInMilliseconds >= 0
Spawn_AlwaysWait ==
    /\ pc = "spawn"
    /\ proc' = [refs |-> 1, retcode_ |-> INVALID_EXIT]
    /\ child' = [NoChild EXCEPT !.state = "running"]
    /\ descendant' = prog.leak
    /\ spawnCount' = spawnCount + 1
    /\ pc' = IF timeout >= 0 THEN "async" ELSE "end"
    /\ UNCHANGED <<command, timeout, prog, result, ret, outPipe, errPipe,
                   worker, buffer, acc, fault, ops, sawTimeout, killedReaped>>

\* lines 43-47: make_shared<Popen>(...), then the test of the timeout
Spawn ==
    /\ pc = "spawn"
    /\ proc' = [refs |-> 1, retcode_ |-> INVALID_EXIT]
    /\ child' = [NoChild EXCEPT !.state = "running"]
    /\ descendant' = prog.leak
    /\ spawnCount' = spawnCount + 1
    /\ pc' = IF timeout > 0 THEN "async" ELSE "end"
    /\ UNCHANGED <<command, timeout, prog, result, ret, outPipe, errPipe,
                   worker, buffer, acc, fault, ops, sawTimeout, killedReaped>>

\* line 43: the constructor throws (the command cannot be executed)
SpawnFault ==
    /\ pc = "spawn"
    /\ fault' = <<"execve failed">>
    /\ pc' = "catch"
    /\ UNCHANGED <<command, timeout, prog, result, ret, proc, child, outPipe,
                   errPipe, descendant, worker, buffer, acc, ops, spawnCount,
                   sawTimeout, killedReaped>>

\* lines 48-51: std::async starts the worker, whose lambda holds a copy of proc
Async ==
    /\ pc = "async"
    /\ worker' = "waiting"
    /\ proc' = [proc EXCEPT !.refs = 2]
    /\ pc' = "wait_for"
    /\ UNCHANGED <<command, timeout, prog, result, ret, child, outPipe,
                   errPipe, descendant, buffer, acc, fault, ops, spawnCount,
                   sawTimeout, killedReaped>>

\* line 48: std::async throws std::system_error (no thread can be started)
AsyncFault ==
    /\ pc = "async"
    /\ fault' = <<"Resource temporarily unavailable">>
    /\ pc' = "catch"
    /\ UNCHANGED <<command, timeout, prog, result, ret, proc, child, outPipe,
                   errPipe, descendant, worker, buffer, acc, ops, spawnCount,
                   sawTimeout, killedReaped>>

\* lines 53-54: wait_for returns future_status::ready
WaitReady ==
    /\ pc = "wait_for"
    /\ worker = "finished"
    /\ pc' = "alloc"
    /\ UNCHANGED <<command, timeout, prog, result, ret, proc, child, outPipe,
                   errPipe, descendant, worker, buffer, acc, fault, ops,
                   spawnCount, sawTimeout, killedReaped>>

\* WaitTimeout without the assignment of line 55
WaitTimeout_NoFlag ==
    /\ pc = "wait_for"
    /\ worker = "waiting"
    /\ result' = [result EXCEPT !.exitCode = INVALID_EXIT]
    /\ sawTimeout' = TRUE
    /\ pc' = "kill"
    /\ UNCHANGED <<command, timeout, prog, ret, proc, child, outPipe, errPipe,
                   descendant, worker, buffer, acc, fault, ops, spawnCount,
                   killedReaped>>

\* lines 53-56: wait_for returns future_status::timeout
WaitTimeout ==
    /\ pc = "wait_for"
    /\ worker = "waiting"
    /\ result' = [result EXCEPT !.timedOut = TRUE, !.exitCode = INVALID_EXIT]
    /\ sawTimeout' = TRUE
    /\ pc' = "kill"
    /\ UNCHANGED <<command, timeout, prog, ret, proc, child, outPipe, errPipe,
                   descendant, worker, buffer, acc, fault, ops, spawnCount,
                   killedReaped>>

\* line 57: proc->kill()
Kill ==
    /\ pc = "kill"
    /\ ops' = Append(ops, "kill")
    /\ child' = IF child.state = "running"
                THEN [child EXCEPT !.sig = TRUE] ELSE child
    /\ killedReaped' = (killedReaped \/ child.state = "reaped")
    /\ pc' = "alloc"
    /\ UNCHANGED <<command, timeout, prog, result, ret, proc, outPipe,
                   errPipe, descendant, worker, buffer, acc, fault,
                   spawnCount, sawTimeout>>

\* lines 60-62: the buffer is made and read_all(proc->output(), buffer) called
Alloc ==
    /\ pc = "alloc"
    /\ buffer' = Zeros(BUFFER_SIZE)
    /\ acc' = <<>>
    /\ ops' = Append(ops, "readOut")
    /\ pc' = "readOut"
    /\ UNCHANGED <<command, timeout, prog, result, ret, proc, child, outPipe,
                   errPipe, descendant, worker, fault, spawnCount, sawTimeout,
                   killedReaped>>

\* line 61: std::vector<char> buffer(BUFFER_SIZE) throws std::bad_alloc
AllocFault ==
    /\ pc = "alloc"
    /\ fault' = <<"std::bad_alloc">>
    /\ pc' = "catch"
    /\ UNCHANGED <<command, timeout, prog, result, ret, proc, child, outPipe,
                   errPipe, descendant, worker, buffer, acc, ops, spawnCount,
                   sawTimeout, killedReaped>>

\* line 62: read_all takes the bytes the pipe holds
ReadOutChunk ==
    /\ pc = "readOut"
    /\ outPipe # <<>>
    /\ acc' = acc \o outPipe
    /\ outPipe' = <<>>
    /\ UNCHANGED <<command, timeout, prog, pc, result, ret, proc, child,
                   errPipe, descendant, worker, buffer, fault, ops,
                   spawnCount, sawTimeout, killedReaped>>

\* ReadOutEOF without the test of line 65
ReadOutEOF_AlwaysErr ==
    /\ pc = "readOut"
    /\ outPipe = <<>>
    /\ EndOfFile
    /\ buffer' = read_all(buffer, acc)
    /\ result' = [result EXCEPT !.output = buffer']
    /\ acc' = <<>>
    /\ ops' = Append(ops, "readErr")
    /\ pc' = "readErr"
    /\ UNCHANGED <<command, timeout, prog, ret, proc, child, outPipe, errPipe,
                   descendant, worker, fault, spawnCount, sawTimeout,
                   killedReaped>>

\* lines 62-66: read_all sees end of file; result.output; the test of timedOut
ReadOutEOF ==
    /\ pc = "readOut"
    /\ outPipe = <<>>
    /\ EndOfFile
    /\ buffer' = read_all(buffer, acc)
    /\ result' = [result EXCEPT !.output = buffer']
    /\ acc' = <<>>
    /\ IF ~result.timedOut
       THEN /\ ops' = Append(ops, "readErr")
            /\ pc' = "readErr"
       ELSE /\ ops' = ops
            /\ pc' = "end"
    /\ UNCHANGED <<command, timeout, prog, ret, proc, child, outPipe, errPipe,
                   descendant, worker, fault, spawnCount, sawTimeout,
                   killedReaped>>

\* lines 66-68: read_all(proc->error(), buffer) takes the bytes the pipe holds
ReadErrChunk ==
    /\ pc = "readErr"
    /\ errPipe # <<>>
    /\ acc' = acc \o errPipe
    /\ errPipe' = <<>>
    /\ UNCHANGED <<command, timeout, prog, pc, result, ret, proc, child,
                   outPipe, descendant, worker, buffer, fault, ops,
                   spawnCount, sawTimeout, killedReaped>>

\* lines 66-68: end of file on stderr; result.error; result.exitCode
ReadErrEOF ==
    /\ pc = "readErr"
    /\ errPipe = <<>>
    /\ EndOfFile
    /\ buffer' = read_all(buffer, acc)
    /\ result' = [result EXCEPT !.error = buffer', !.exitCode = retcode(proc)]
    /\ acc' = <<>>
    /\ ops' = Append(ops, "retcode")
    /\ pc' = "end"
    /\ UNCHANGED <<command, timeout, prog, ret, proc, child, outPipe, errPipe,
                   descendant, worker, fault, spawnCount, sawTimeout,
                   killedReaped>>

\* lines 62-67: growing the vector or making the std::string throws
ReadFault ==
    /\ pc \in {"readOut", "readErr"}
    /\ fault' = <<"std::bad_alloc">>
    /\ pc' = "catch"
    /\ UNCHANGED <<command, timeout, prog, result, ret, proc, child, outPipe,
                   errPipe, descendant, worker, buffer, acc, ops, spawnCount,
                   sawTimeout, killedReaped>>

\* EndOfBlock with a future that does not join its task
EndOfBlock_NoJoin ==
    /\ pc = "end"
    /\ proc' = [proc EXCEPT !.refs = 0]
    /\ outPipe' = <<>>
    /\ errPipe' = <<>>
    /\ pc' = "return"
    /\ UNCHANGED <<command, timeout, prog, result, ret, child, descendant,
                   worker, buffer, acc, fault, ops, spawnCount, sawTimeout,
                   killedReaped>>

\* lines 70-71: the scopes end: ~future joins the worker, the last
\* shared_ptr to the Popen goes and its pipes are closed
EndOfBlock ==
    /\ pc = "end"
    /\ worker # "waiting"
    /\ proc' = [proc EXCEPT !.refs = 0]
    /\ outPipe' = <<>>
    /\ errPipe' = <<>>
    /\ pc' = "return"
    /\ UNCHANGED <<command, timeout, prog, result, ret, child, descendant,
                   worker, buffer, acc, fault, ops, spawnCount, sawTimeout,
                   killedReaped>>

\* lines 71-75: unwinding (the same destructors), then the handler
Catch ==
    /\ pc = "catch"
    /\ worker # "waiting"
    /\ proc' = [proc EXCEPT !.refs = 0]
    /\ outPipe' = <<>>
    /\ errPipe' = <<>>
    /\ result' = [result EXCEPT !.error = fault, !.exitCode = INVALID_EXIT]
    /\ pc' = "return"
    /\ UNCHANGED <<command, timeout, prog, ret, child, descendant, worker,
                   buffer, acc, fault, ops, spawnCount, sawTimeout,
                   killedReaped>>

\* lines 77, 87-99: the runner returns and popen makes its pair
PopenReturn ==
    /\ pc = "return"
    /\ ret' = PopenResult(command, timeout, result)
    /\ pc' = "done"
    /\ UNCHANGED <<command, timeout, prog, result, proc, child, outPipe,
                   errPipe, descendant, worker, buffer, acc, fault, ops,
                   spawnCount, sawTimeout, killedReaped>>

-----------------------------------------------------------------------------
(* The worker task *)

\* line 49: proc->wait() returns once the child has ended, and reaps it
WorkerWait ==
    /\ worker = "waiting"
    /\ child.state = "zombie"
    /\ child' = [child EXCEPT !.state = "reaped"]
    /\ worker' = "finished"
    /\ UNCHANGED <<command, timeout, prog, pc, result, ret, proc, outPipe,
                   errPipe, descendant, buffer, acc, fault, ops, spawnCount,
                   sawTimeout, killedReaped>>

-----------------------------------------------------------------------------
(* The child process and its descendant *)

ReadEndsOpen == proc.refs > 0

\* the child writes its next byte to stdout; it blocks while the pipe is full
ChildWriteOut ==
    /\ child.state = "running"
    /\ child.wrOut < Len(prog.out)
    /\ ReadEndsOpen => Len(outPipe) < PipeCap
    /\ outPipe' = IF ReadEndsOpen
                  THEN Append(outPipe, prog.out[child.wrOut + 1]) ELSE outPipe
    /\ child' = [child EXCEPT !.wrOut = child.wrOut + 1]
    /\ UNCHANGED <<command, timeout, prog, pc, result, ret, proc, errPipe,
                   descendant, worker, buffer, acc, fault, ops, spawnCount,
                   sawTimeout, killedReaped>>

\* the child writes its next byte to stderr
ChildWriteErr ==
    /\ child.state = "running"
    /\ child.wrErr < Len(prog.err)
    /\ ReadEndsOpen => Len(errPipe) < PipeCap
    /\ errPipe' = IF ReadEndsOpen
                  THEN Append(errPipe, prog.err[child.wrErr + 1]) ELSE errPipe
    /\ child' = [child EXCEPT !.wrErr = child.wrErr + 1]
    /\ UNCHANGED <<command, timeout, prog, pc, result, ret, proc, outPipe,
                   descendant, worker, buffer, acc, fault, ops, spawnCount,
                   sawTimeout, killedReaped>>

\* the child has written everything and exits with its status
ChildExit ==
    /\ child.state = "running"
    /\ ~prog.forever
    /\ child.wrOut = Len(prog.out)
    /\ child.wrErr = Len(prog.err)
    /\ child' = [child EXCEPT !.state = "zombie", !.status = prog.status,
                              !.how = "exit"]
    /\ UNCHANGED <<command, timeout, prog, pc, result, ret, proc, outPipe,
                   errPipe, descendant, worker, buffer, acc, fault, ops,
                   spawnCount, sawTimeout, killedReaped>>

\* the signal of line 57 ends the child
ChildDie ==
    /\ child.state = "running"
    /\ child.sig
    /\ child' = [child EXCEPT !.state = "zombie", !.status = SIGKILL,
                              !.how = "killed"]
    /\ UNCHANGED <<command, timeout, prog, pc, result, ret, proc, outPipe,
                   errPipe, descendant, worker, buffer, acc, fault, ops,
                   spawnCount, sawTimeout, killedReaped>>

\* a descendant that inherited the pipes closes them (it ends)
DescendantClose ==
    /\ descendant
    /\ descendant' = FALSE
    /\ UNCHANGED <<command, timeout, prog, pc, result, ret, proc, child,
                   outPipe, errPipe, worker, buffer, acc, fault, ops,
                   spawnCount, sawTimeout, killedReaped>>

-----------------------------------------------------------------------------
CallerStep ==
    \/ PopenEntry
    \/ Spawn
    \/ Async
    \/ WaitReady
    \/ WaitTimeout
    \/ Kill
    \/ Alloc
    \/ ReadOutChunk
    \/ ReadOutEOF
    \/ ReadErrChunk
    \/ ReadErrEOF
    \/ EndOfBlock
    \/ Catch
    \/ PopenReturn

Next ==
    \/ PopenEntry
    \/ Spawn
    \/ SpawnFault
    \/ Async
    \/ AsyncFault
    \/ WaitReady
    \/ WaitTimeout
    \/ Kill
    \/ Alloc
    \/ AllocFault
    \/ ReadOutChunk
    \/ ReadOutEOF
    \/ ReadErrChunk
    \/ ReadErrEOF
    \/ ReadFault
    \/ EndOfBlock
    \/ Catch
    \/ PopenReturn
    \/ WorkerWait
    \/ ChildWriteOut
    \/ ChildWriteErr
    \/ ChildExit
    \/ ChildDie
    \/ DescendantClose

Spec == Init /\ [][Next]_vars

\* Both threads keep running, and a child that was sent SIGKILL ends.
\* Nothing obliges the child to exit by itself, a descendant to close the
\* pipes, or a fault to be raised.
FairSpec ==
    /\ Init /\ [][Next]_vars
    /\ WF_vars(CallerStep)
    /\ WF_vars(WorkerWait)
    /\ WF_vars(ChildDie)

-----------------------------------------------------------------------------
(* Properties *)

Did(op) == \E i \in 1..Len(ops) : ops[i] = op

Returned == pc \in {"return", "done"}

\* what the child has written so far
WrittenOut == SubSeq(prog.out, 1, child.wrOut)
WrittenErr == SubSeq(prog.err, 1, child.wrErr)

\* the timed wait of a call with timeout > 0 ended with the child completed
InTime == timeout > 0 /\ spawnCount = 1 /\ ~sawTimeout

\* C1: when the timed wait of a call with timeout > 0 ends in a timeout, the
\* outcome has timedOut = true and exitCode = -1, kill was issued before the
\* return, the child is no longer running (it has ended and been reaped),
\* and popen returns an empty output with a non-empty error that contains
\* the command and the timeout value.
C1_TimeoutOutcome ==
    /\ (Returned /\ sawTimeout) =>
          /\ timeout > 0
          /\ result.timedOut
          /\ result.exitCode = -1
          /\ Did("kill")
          /\ child.state = "reaped"
    /\ (pc = "done" /\ sawTimeout) =>
          /\ ret.output = <<>>
          /\ ret.error # <<>>
          /\ Contains(ret.error, command)
          /\ Contains(ret.error, to_string(timeout))

C1_Witness ==
    /\ pc = "done"
    /\ sawTimeout
    /\ timeout = 12
    /\ prog.forever
    /\ child.how = "killed"
    /\ fault = None

\* C2 as stated: for every call of popen exactly one of the two returned
\* strings is non-empty.
C2_ExactlyOneNonEmpty ==
    pc = "done" => ((ret.output # <<>>) # (ret.error # <<>>))

\* C2 as amended: popen never returns two non-empty strings; it returns two
\* empty strings exactly when the command is not empty and the outcome has
\* no timeout, no error text and no output text.
C2_AtMostOneNonEmpty ==
    pc = "done" =>
       /\ ret.output = <<>> \/ ret.error = <<>>
       /\ (ret.output = <<>> /\ ret.error = <<>>) <=>
             /\ command # <<>>
             /\ ~result.timedOut
             /\ result.error = <<>>
             /\ result.output = <<>>

C2_Witness ==
    /\ pc = "done"
    /\ command # <<>>
    /\ timeout = 0
    /\ child.wrOut > 0
    /\ ret.output = <<>>
    /\ ret.error = <<>>

\* C3: a fault raised in the runner is caught, and the outcome returned for
\* it has timedOut = false, exitCode = -1 and the fault's message as error,
\* also when the fault is raised after the timeout branch has run.
C3_FaultOutcome ==
    (Returned /\ fault # None) =>
       /\ result.timedOut = FALSE
       /\ result.exitCode = -1
       /\ result.error = fault

\* C4: when the child completes within a timeout > 0 (and no fault is
\* raised): if it wrote nothing to stderr, popen returns exactly its stdout
\* text and an empty error; if it wrote stderr text and exited non-zero,
\* popen returns an empty output and an error that contains the command, the
\* child's exit code and the stderr text.
C4_InTimeResult ==
    (pc = "done" /\ InTime /\ fault = None) =>
       /\ WrittenErr = <<>> =>
             ret = [output |-> WrittenOut, error |-> <<>>]
       /\ (WrittenErr # <<>> /\ child.status # 0) =>
             /\ ret.output = <<>>
             /\ Contains(ret.error, command)
             /\ Contains(ret.error, to_string(child.status))
             /\ Contains(ret.error, WrittenErr)

\* C5: for the empty command popen returns ("", "Command is empty") and the
\* spawn step is never reached, whatever the timeout.
C5_EmptyCommand ==
    command = <<>> =>
       /\ spawnCount = 0
       /\ pc \in {"popen", "done"}
       /\ child.state = "none"
       /\ pc = "done" =>
             ret = [output |-> <<>>, error |-> <<"Command is empty">>]

C5_Witness ==
    /\ command = <<>>
    /\ timeout = 12
    /\ pc = "done"
    /\ ret.error = <<"Command is empty">>

C7_ExactlyOneSequence ==
    (pc = "done" /\ timeout > 0 /\ command # <<>>) =>
        ops \in {SeqInTime, SeqTimeout}

\* C7 as amended: in an invocation with timeout > 0 that raises no fault
\* exactly one of the two sequences is executed, the kill sequence when and
\* only when the wait timed out; in every invocation what is executed is a
\* prefix of one of them, so stderr and the exit code are never read after
\* a timeout and kill is never issued after the wait completed in time.
C7_OneSequenceUnlessFault ==
    /\ IsPrefix(ops, SeqInTime) \/ IsPrefix(ops, SeqTimeout)
    /\ Did("kill") => sawTimeout /\ result.timedOut
    /\ (Did("readErr") \/ Did("retcode")) => ~result.timedOut
    /\ (pc = "done" /\ timeout > 0 /\ command # <<>> /\ fault = None) =>
          ops = IF sawTimeout THEN SeqTimeout ELSE SeqInTime

C7_Witness ==
    /\ pc = "done"
    /\ fault = None
    /\ ops = SeqTimeout
    /\ child.how = "killed"

\* C8: when the runner has returned, on every path, the worker task is not
\* running any more and no reference to the process handle is left.
C8_Released ==
    Returned => (worker # "waiting" /\ proc.refs = 0)

C8_Witness ==
    /\ pc = "done"
    /\ sawTimeout
    /\ fault # None
    /\ worker = "finished"
    /\ spawnCount = 1
    /\ proc.refs = 0

\* C9: every call with timeout > 0 that reaches the timed wait eventually
\* returns, for every behaviour of the child, given that a killed child
\* ends; and no pipe is read before the wait has completed or timed out.
C9_TimedCallReturns ==
    /\ (pc = "wait_for") ~> (pc = "done")
    /\ [](Did("readOut") => (sawTimeout \/ worker = "finished"))

\* C10: kill is never issued on a child that the worker has already reaped,
\* and timedOut = true is never reported for a child that ended by itself.
C10_KillOnlyLiveChild ==
    /\ ~killedReaped
    /\ (Returned /\ result.timedOut) => child.how = "killed"

====
